---- MODULE Spec2Model ----
(***************************************************************************)
(* Pointwise geometric mean / median of a sample of quaternion time        *)
(* series: the two drivers mean_qts_impl and median_qts_impl of            *)
(* src/src/squatQTSSampleClass.cpp.                                        *)
(*                                                                         *)
(* R objects are reference objects.  A data frame lives in mem under an    *)
(* object id; the list argument qts_list holds ids; outValue, tmpValue     *)
(* and the column handles wValues..zValues are references into mem, so     *)
(* that writing through a handle changes the object it refers to.          *)
(* The aggregators gmean / gmedian (squatSO3Utils) are not part of the     *)
(* source at hand: they are uninterpreted functions constrained by the     *)
(* contract of the specification (section 4.1).                            *)
(* Grid indices are 0-based as in the C++ code; TLA+ sequences are         *)
(* 1-based, so index i of a column is element i + 1.                       *)
(***************************************************************************)
EXTENDS Integers, Sequences, FiniteSets, TLC

\* Largest number of series in the input list.
MaxN == 2
\* Largest grid size of a series.
MaxG == 2

-----------------------------------------------------------------------------
(* Scalars.  A column cell is a literal number, or a component of an       *)
(* aggregator result over a bag of samples, or junk read out of bounds,    *)
(* or the content of a default-constructed (not yet assigned) vector.      *)

NoSamples == [q \in {} |-> 0]

Lit(v) == [op |-> "lit", n |-> v, of |-> NoSamples]

Junk == [op |-> "junk", n |-> 0, of |-> NoSamples]

Unset == [op |-> "unset", n |-> 0, of |-> NoSamples]

NoQuat == <<Unset, Unset, Unset, Unset>>

JunkQuat == <<Junk, Junk, Junk, Junk>>

LitQuat(q) == <<Lit(q[1]), Lit(q[2]), Lit(q[3]), Lit(q[4])>>

\* The three rotations of the specification's concrete scenario.
Quats == << <<1, 0, 0, 0>>, <<0, 1, 0, 0>>, <<0, 0, 1, 0>> >>

Range(s) == {s[k] : k \in DOMAIN s}

\* The multiset of a sample sequence: sample |-> number of occurrences.
SampleBag(samples) ==
  [q \in Range(samples) |-> Cardinality({k \in DOMAIN samples : samples[k] = q})]

\* An aggregator result: component k of the (named) aggregate of a bag.
Term(name, samples) ==
  [k \in 1..4 |-> [op |-> name, n |-> k, of |-> SampleBag(samples)]]

\* Contract of both aggregators: an empty sample set fails fast.
AggFails(samples) == Len(samples) = 0

\* Contract of both aggregators: one sample, or copies of one rotation, are
\* returned as they are; otherwise the result depends on the multiset only.
Aggregate(name, samples) ==
  IF Cardinality(Range(samples)) = 1 THEN samples[1] ELSE Term(name, samples)

gmean(samples) == Aggregate("gmean", samples)

gmedian(samples) == Aggregate("gmedian", samples)

-----------------------------------------------------------------------------
(* Data frames: a time/index column, the four quaternion columns, and the  *)
(* class attribute.                                                        *)

QtsClass == <<"qts", "tbl_df", "tbl", "data.frame">>

TblClass == <<"tbl_df", "tbl", "data.frame">>

NoFrame == [time |-> <<>>, w |-> <<>>, x |-> <<>>, y |-> <<>>, z |-> <<>>,
            class |-> <<>>]

Nrows(frame) == Len(frame.time)

QuatAt(a, k) == Quats[((a + k) % Len(Quats)) + 1]

\* The series whose rotation at grid index k - 1 is QuatAt(a, k), sampled at
\* times t0, t0 + 1, ..., with class attribute c and g grid points.
Series(a, t0, c, g) ==
  [time  |-> [k \in 1..g |-> t0 + k - 1],
   w     |-> [k \in 1..g |-> Lit(QuatAt(a, k)[1])],
   x     |-> [k \in 1..g |-> Lit(QuatAt(a, k)[2])],
   y     |-> [k \in 1..g |-> Lit(QuatAt(a, k)[3])],
   z     |-> [k \in 1..g |-> Lit(QuatAt(a, k)[4])],
   class |-> c]

Classes == {QtsClass, TblClass}

\* The series a call may be given, as <<a, t0>>: two that differ in their
\* rotations only, two that differ in their times only, and so on.
Catalogue == {<<0, 0>>, <<1, 0>>, <<1, 1>>, <<2, 1>>}

SeriesOf(g, c) == {Series(s[1], s[2], c, g) : s \in Catalogue}

\* What an object found past the end of an empty list may look like when it
\* is taken for a data frame.
JunkFrames ==
  {NoFrame,
   [time |-> <<0>>, w |-> <<Junk>>, x |-> <<Junk>>, y |-> <<Junk>>,
    z |-> <<Junk>>, class |-> <<>>]}

Handle(id, col) == [frame |-> id, col |-> col]

NoHandle == Handle(-1, "none")

Fns == {"mean", "median"}

-----------------------------------------------------------------------------
VARIABLES
  qts_list,   \* the argument: a sequence of object ids
  mem,        \* object id |-> data frame; id 0 is the object clone() makes
  fn,         \* the function that was called
  pc,         \* "start", "loop", "done", "error" (exception), "crash"
  nSamples,
  nGrid,
  outValue,   \* object id of the output frame, -1 before it is assigned
  workers,    \* the threads that run the loop body; {1} in the code as it is
  shared,     \* whether the threads share the function-scope scratch variables
  lo, hi,     \* thread |-> the grid indices lo..hi-1 it iterates over
  wi, wj,     \* thread |-> its loop counters i and j
  wpc,        \* thread |-> "gather" (lines 17-28) or "write" (lines 30-37)
  scratch,    \* slot |-> tmpValue, wValues..zValues, qValues, avgQValue
  trace,      \* thread |-> the accesses it made, in order
  prev        \* the previous call of the caller, if any

vars == <<qts_list, mem, fn, pc, nSamples, nGrid, outValue, workers, shared,
          lo, hi, wi, wj, wpc, scratch, trace, prev>>

Ev(ev, pos, frame, col, i, arg, val) ==
  [ev |-> ev, pos |-> pos, frame |-> frame, col |-> col, i |-> i,
   arg |-> arg, val |-> val]

EltEv(pos, frame) == Ev("elt", pos, frame, "", 0, <<>>, Unset)

ReadEv(pos, frame, col, i) == Ev("read", pos, frame, col, i, <<>>, Unset)

OobEv(pos, frame, col, i) == Ev("oob", pos, frame, col, i, <<>>, Unset)

AggEv(i, arg) == Ev("agg", 0, -1, "", i, arg, Unset)

WriteEv(frame, col, i, val) == Ev("write", 0, frame, col, i, <<>>, val)

AttrEv(frame) == Ev("attr", 0, frame, "class", 0, <<>>, Unset)

NoPrev == [set |-> FALSE, fn |-> "", list |-> <<>>, out |-> NoFrame,
           trace |-> <<>>]

FreshScratch(n) ==
  [tmpValue |-> -1, wValues |-> NoHandle, xValues |-> NoHandle,
   yValues |-> NoHandle, zValues |-> NoHandle,
   qValues |-> [k \in 1..n |-> NoQuat], avgQValue |-> NoQuat]

\* The scratch slot thread w uses.
Slot(w) == IF shared THEN 1 ELSE w

\* How the grid 0..g-1 is divided among the threads: one thread takes it
\* all; two threads take 0..cut-1 and cut..g-1.
Cuts(g) == IF Cardinality(workers) = 1 THEN {g} ELSE 0..g

LoOf(cut) == [w \in workers |-> IF w = 1 THEN 0 ELSE cut]

HiOf(cut, g) == [w \in workers |-> IF w = 1 THEN cut ELSE g]

\* The state of the locals before the function is entered.
Idle ==
  /\ pc = "start"
  /\ nSamples = 0
  /\ nGrid = 0
  /\ outValue = -1
  /\ lo = [w \in workers |-> 0]
  /\ hi = [w \in workers |-> 0]
  /\ wi = [w \in workers |-> 0]
  /\ wj = [w \in workers |-> 0]
  /\ wpc = [w \in workers |-> "gather"]
  /\ scratch = [w \in workers |-> FreshScratch(0)]
  /\ trace = [w \in workers |-> <<>>]

\* A call on a list of n series, all of grid size g.
Init ==
  /\ \E n \in 0..MaxN, g \in 0..MaxG, c \in Classes :
       \E frames \in [1..n -> SeriesOf(g, c)] :
         /\ mem = [k \in 0..n |-> IF k = 0 THEN NoFrame ELSE frames[k]]
         /\ qts_list = [k \in 1..n |-> k]
  /\ fn \in Fns
  /\ workers = {1}
  /\ shared = TRUE
  /\ prev = NoPrev
  /\ Idle

-----------------------------------------------------------------------------
(* Outcomes of the accesses the code does not guard.                       *)

\* Mutant: the clone is taken of the last element of the list.
CloneOutcomes_last(m, list) ==
  IF Len(list) > 0
  THEN {[kind |-> "ok", frame |-> m[list[Len(list)]]]}
  ELSE {[kind |-> "error", frame |-> NoFrame]}

\* Rcpp::clone(list)[0]: a deep copy of the first element; on an empty list
\* the access is past the end, and raises, or crashes, or yields whatever
\* object is found there.
CloneOutcomes(m, list) ==
  IF Len(list) > 0
  THEN {[kind |-> "ok", frame |-> m[list[1]]]}
  ELSE {[kind |-> "error", frame |-> NoFrame], [kind |-> "crash", frame |-> NoFrame]}
       \cup {[kind |-> "junk", frame |-> f] : f \in JunkFrames}

\* v(i) on the four columns of a frame: in bounds the values; past the end
\* an exception, or a crash, or whatever memory holds.
ReadOutcomes(frame, i, inBounds) ==
  IF inBounds
  THEN {[kind |-> "ok",
         q |-> <<frame.w[i + 1], frame.x[i + 1], frame.y[i + 1], frame.z[i + 1]>>]}
  ELSE {[kind |-> "error", q |-> NoQuat], [kind |-> "crash", q |-> NoQuat],
        [kind |-> "junk", q |-> JunkQuat], [kind |-> "junk", q |-> LitQuat(Quats[1])]}

Store(col, i, v) == IF i + 1 \in DOMAIN col THEN [col EXCEPT ![i + 1] = v] ELSE col

-----------------------------------------------------------------------------
(* mean_qts_impl                                                           *)

\* Line 7: nSamples = qts_list.size().
mean_nSamples(list) == Len(list)

\* Mutant: no clone; outValue refers to the first element itself.
mean_OutHandle_alias(list) == IF Len(list) > 0 THEN list[1] ELSE 0

\* Line 9: the object outValue refers to: the fresh object clone() makes.
mean_OutHandle(list) == 0

\* Line 10: nGrid = outValue.nrows().
mean_nGrid(frame) == Nrows(frame)

\* Mutant: the loop steps over every other grid index.
mean_NextI_skip(i) == i + 2

\* Line 15: ++i.
mean_NextI(i) == i + 1

\* Mutant: every sample is taken from the first series.
mean_TmpValue_first(list, j) == list[1]

\* Line 19: tmpValue = qts_list[j].
mean_TmpValue(list, j) == list[j + 1]

\* Mutant: the columns are read at row 0 instead of row i.
mean_Sample_row0(frame, i) == ReadOutcomes(frame, 0, 0 < Len(frame.w))

\* Lines 20-24: {wValues(i), xValues(i), yValues(i), zValues(i)} of tmpValue.
mean_Sample(frame, i) == ReadOutcomes(frame, i, i < Len(frame.w))

\* Line 25: qValues[j] = avgQValue.
mean_Keep(qValues, j, q) == [qValues EXCEPT ![j + 1] = q]

\* Line 28: gmean(qValues).
mean_Agg(qValues) == gmean(qValues)

\* Mutant: every result is written to row 0.
mean_Put_row0(frame, i, q) ==
  [frame EXCEPT !.w = Store(@, 0, q[1]), !.x = Store(@, 0, q[2]),
                !.y = Store(@, 0, q[3]), !.z = Store(@, 0, q[4])]

\* Lines 30-37: the four components of avgQValue go to row i of outValue.
mean_Put(frame, i, q) ==
  [frame EXCEPT !.w = Store(@, i, q[1]), !.x = Store(@, i, q[2]),
                !.y = Store(@, i, q[3]), !.z = Store(@, i, q[4])]

\* Line 40: the class attribute of outValue.
mean_Tag(frame) == [frame EXCEPT !.class = QtsClass]

\* Lines 7-13: the locals, the clone of the first series, the grid size.
mean_Enter ==
  /\ fn = "mean"
  /\ pc = "start"
  /\ nSamples' = mean_nSamples(qts_list)
  /\ \E o \in CloneOutcomes(mem, qts_list) :
       LET made == o.kind \in {"ok", "junk"}
           g    == IF made THEN mean_nGrid(o.frame) ELSE 0
           h    == mean_OutHandle(qts_list)
       IN  /\ pc' = IF made THEN "loop" ELSE o.kind
           /\ mem' = IF made THEN [mem EXCEPT ![h] = o.frame] ELSE mem
           /\ outValue' = IF made THEN h ELSE -1
           /\ nGrid' = g
           /\ trace' = [trace EXCEPT ![1] =
                          Append(@, IF o.kind = "ok" THEN EltEv(0, qts_list[1])
                                    ELSE OobEv(0, -1, "", 0))]
           /\ \E cut \in Cuts(g) :
                /\ lo' = LoOf(cut)
                /\ hi' = HiOf(cut, g)
                /\ wi' = LoOf(cut)
  /\ wj' = [w \in workers |-> 0]
  /\ wpc' = [w \in workers |-> "gather"]
  /\ scratch' = [w \in workers |-> FreshScratch(nSamples')]
  /\ UNCHANGED <<qts_list, fn, workers, shared, prev>>

\* Lines 17-26, one pass of the inner loop: sample j of grid index i.
mean_Gather ==
  /\ fn = "mean"
  /\ pc = "loop"
  /\ \E w \in workers :
       /\ wi[w] < hi[w]
       /\ wpc[w] = "gather"
       /\ wj[w] < nSamples
       /\ LET i == wi[w]
              j == wj[w]
              t == mean_TmpValue(qts_list, j)
          IN  \E o \in mean_Sample(mem[t], i) :
                LET read == o.kind \in {"ok", "junk"}
                    sc   == scratch[Slot(w)]
                IN  /\ pc' = IF read THEN pc ELSE o.kind
                    /\ scratch' =
                         IF read
                         THEN [scratch EXCEPT ![Slot(w)] =
                                 [tmpValue  |-> t,
                                  wValues   |-> Handle(t, "w"),
                                  xValues   |-> Handle(t, "x"),
                                  yValues   |-> Handle(t, "y"),
                                  zValues   |-> Handle(t, "z"),
                                  qValues   |-> mean_Keep(sc.qValues, j, o.q),
                                  avgQValue |-> o.q]]
                         ELSE scratch
                    /\ wj' = IF read THEN [wj EXCEPT ![w] = j + 1] ELSE wj
                    /\ trace' = [trace EXCEPT ![w] =
                                   IF o.kind = "ok"
                                   THEN @ \o <<EltEv(j, t), ReadEv(j, t, "w", i),
                                               ReadEv(j, t, "x", i), ReadEv(j, t, "y", i),
                                               ReadEv(j, t, "z", i)>>
                                   ELSE @ \o <<EltEv(j, t), OobEv(j, t, "w", i)>>]
  /\ UNCHANGED <<qts_list, mem, fn, nSamples, nGrid, outValue, workers, shared,
                 lo, hi, wi, wpc, prev>>

\* Line 28: the aggregate of the gathered samples.
mean_Aggregate ==
  /\ fn = "mean"
  /\ pc = "loop"
  /\ \E w \in workers :
       /\ wi[w] < hi[w]
       /\ wpc[w] = "gather"
       /\ wj[w] >= nSamples
       /\ LET sc == scratch[Slot(w)]
          IN  /\ pc' = IF AggFails(sc.qValues) THEN "error" ELSE pc
              /\ scratch' =
                   IF AggFails(sc.qValues) THEN scratch
                   ELSE [scratch EXCEPT ![Slot(w)].avgQValue = mean_Agg(sc.qValues)]
              /\ wpc' = IF AggFails(sc.qValues) THEN wpc ELSE [wpc EXCEPT ![w] = "write"]
              /\ trace' = [trace EXCEPT ![w] = Append(@, AggEv(wi[w], sc.qValues))]
  /\ UNCHANGED <<qts_list, mem, fn, nSamples, nGrid, outValue, workers, shared,
                 lo, hi, wi, wj, prev>>

\* Lines 30-37 and the loop increment: row i of the output.
mean_Write ==
  /\ fn = "mean"
  /\ pc = "loop"
  /\ \E w \in workers :
       /\ wi[w] < hi[w]
       /\ wpc[w] = "write"
       /\ LET i  == wi[w]
              sc == scratch[Slot(w)]
              q  == sc.avgQValue
          IN  /\ mem' = [mem EXCEPT ![outValue] = mean_Put(@, i, q)]
              /\ scratch' = [scratch EXCEPT ![Slot(w)] =
                               [sc EXCEPT !.wValues = Handle(outValue, "w"),
                                          !.xValues = Handle(outValue, "x"),
                                          !.yValues = Handle(outValue, "y"),
                                          !.zValues = Handle(outValue, "z")]]
              /\ trace' = [trace EXCEPT ![w] =
                             @ \o <<WriteEv(outValue, "w", i, mean_Put(mem[outValue], i, q).w[i + 1]),
                                    WriteEv(outValue, "x", i, mean_Put(mem[outValue], i, q).x[i + 1]),
                                    WriteEv(outValue, "y", i, mean_Put(mem[outValue], i, q).y[i + 1]),
                                    WriteEv(outValue, "z", i, mean_Put(mem[outValue], i, q).z[i + 1])>>]
              /\ wi' = [wi EXCEPT ![w] = mean_NextI(i)]
              /\ wj' = [wj EXCEPT ![w] = 0]
              /\ wpc' = [wpc EXCEPT ![w] = "gather"]
  /\ UNCHANGED <<qts_list, fn, pc, nSamples, nGrid, outValue, workers, shared,
                 lo, hi, prev>>

\* Lines 40-41: the class attribute, and the return.
mean_Finish ==
  /\ fn = "mean"
  /\ pc = "loop"
  /\ \A w \in workers : wi[w] >= hi[w]
  /\ mem' = [mem EXCEPT ![outValue] = mean_Tag(@)]
  /\ trace' = [trace EXCEPT ![1] = Append(@, AttrEv(outValue))]
  /\ pc' = "done"
  /\ UNCHANGED <<qts_list, fn, nSamples, nGrid, outValue, workers, shared,
                 lo, hi, wi, wj, wpc, scratch, prev>>

mean_qts_impl ==
  \/ mean_Enter
  \/ mean_Gather
  \/ mean_Aggregate
  \/ mean_Write
  \/ mean_Finish

-----------------------------------------------------------------------------
(* median_qts_impl                                                         *)

\* Line 46: nSamples = qts_list.size().
median_nSamples(list) == Len(list)

\* Line 48: the object outValue refers to: the fresh object clone() makes.
median_OutHandle(list) == 0

\* Mutant: the loop runs one grid index too far.
median_nGrid_plus(frame) == Nrows(frame) + 1

\* Line 49: nGrid = outValue.nrows().
median_nGrid(frame) == Nrows(frame)

\* Line 54: ++i.
median_NextI(i) == i + 1

\* Line 58: tmpValue = qts_list[j].
median_TmpValue(list, j) == list[j + 1]

\* Lines 59-63: {wValues(i), xValues(i), yValues(i), zValues(i)} of tmpValue.
median_Sample(frame, i) == ReadOutcomes(frame, i, i < Len(frame.w))

\* Line 64: qValues[j] = avgQValue.
median_Keep(qValues, j, q) == [qValues EXCEPT ![j + 1] = q]

\* Line 67: gmedian(qValues).
median_Agg(qValues) == gmedian(qValues)

\* Mutant: components 1 and 2 of the result are written to the wrong columns.
median_Put_swapped(frame, i, q) ==
  [frame EXCEPT !.w = Store(@, i, q[1]), !.x = Store(@, i, q[3]),
                !.y = Store(@, i, q[2]), !.z = Store(@, i, q[4])]

\* Mutant: the result is written one row too far.
median_Put_offByOne(frame, i, q) ==
  [frame EXCEPT !.w = Store(@, i + 1, q[1]), !.x = Store(@, i + 1, q[2]),
                !.y = Store(@, i + 1, q[3]), !.z = Store(@, i + 1, q[4])]

\* Lines 69-76: the four components of avgQValue go to row i of outValue.
median_Put(frame, i, q) ==
  [frame EXCEPT !.w = Store(@, i, q[1]), !.x = Store(@, i, q[2]),
                !.y = Store(@, i, q[3]), !.z = Store(@, i, q[4])]

\* Line 79: the class attribute of outValue.
median_Tag(frame) == [frame EXCEPT !.class = QtsClass]

\* Lines 46-52: the locals, the clone of the first series, the grid size.
median_Enter ==
  /\ fn = "median"
  /\ pc = "start"
  /\ nSamples' = median_nSamples(qts_list)
  /\ \E o \in CloneOutcomes(mem, qts_list) :
       LET made == o.kind \in {"ok", "junk"}
           g    == IF made THEN median_nGrid(o.frame) ELSE 0
           h    == median_OutHandle(qts_list)
       IN  /\ pc' = IF made THEN "loop" ELSE o.kind
           /\ mem' = IF made THEN [mem EXCEPT ![h] = o.frame] ELSE mem
           /\ outValue' = IF made THEN h ELSE -1
           /\ nGrid' = g
           /\ trace' = [trace EXCEPT ![1] =
                          Append(@, IF o.kind = "ok" THEN EltEv(0, qts_list[1])
                                    ELSE OobEv(0, -1, "", 0))]
           /\ \E cut \in Cuts(g) :
                /\ lo' = LoOf(cut)
                /\ hi' = HiOf(cut, g)
                /\ wi' = LoOf(cut)
  /\ wj' = [w \in workers |-> 0]
  /\ wpc' = [w \in workers |-> "gather"]
  /\ scratch' = [w \in workers |-> FreshScratch(nSamples')]
  /\ UNCHANGED <<qts_list, fn, workers, shared, prev>>

\* Lines 56-65, one pass of the inner loop: sample j of grid index i.
median_Gather ==
  /\ fn = "median"
  /\ pc = "loop"
  /\ \E w \in workers :
       /\ wi[w] < hi[w]
       /\ wpc[w] = "gather"
       /\ wj[w] < nSamples
       /\ LET i == wi[w]
              j == wj[w]
              t == median_TmpValue(qts_list, j)
          IN  \E o \in median_Sample(mem[t], i) :
                LET read == o.kind \in {"ok", "junk"}
                    sc   == scratch[Slot(w)]
                IN  /\ pc' = IF read THEN pc ELSE o.kind
                    /\ scratch' =
                         IF read
                         THEN [scratch EXCEPT ![Slot(w)] =
                                 [tmpValue  |-> t,
                                  wValues   |-> Handle(t, "w"),
                                  xValues   |-> Handle(t, "x"),
                                  yValues   |-> Handle(t, "y"),
                                  zValues   |-> Handle(t, "z"),
                                  qValues   |-> median_Keep(sc.qValues, j, o.q),
                                  avgQValue |-> o.q]]
                         ELSE scratch
                    /\ wj' = IF read THEN [wj EXCEPT ![w] = j + 1] ELSE wj
                    /\ trace' = [trace EXCEPT ![w] =
                                   IF o.kind = "ok"
                                   THEN @ \o <<EltEv(j, t), ReadEv(j, t, "w", i),
                                               ReadEv(j, t, "x", i), ReadEv(j, t, "y", i),
                                               ReadEv(j, t, "z", i)>>
                                   ELSE @ \o <<EltEv(j, t), OobEv(j, t, "w", i)>>]
  /\ UNCHANGED <<qts_list, mem, fn, nSamples, nGrid, outValue, workers, shared,
                 lo, hi, wi, wpc, prev>>

\* Line 67: the aggregate of the gathered samples.
median_Aggregate ==
  /\ fn = "median"
  /\ pc = "loop"
  /\ \E w \in workers :
       /\ wi[w] < hi[w]
       /\ wpc[w] = "gather"
       /\ wj[w] >= nSamples
       /\ LET sc == scratch[Slot(w)]
          IN  /\ pc' = IF AggFails(sc.qValues) THEN "error" ELSE pc
              /\ scratch' =
                   IF AggFails(sc.qValues) THEN scratch
                   ELSE [scratch EXCEPT ![Slot(w)].avgQValue = median_Agg(sc.qValues)]
              /\ wpc' = IF AggFails(sc.qValues) THEN wpc ELSE [wpc EXCEPT ![w] = "write"]
              /\ trace' = [trace EXCEPT ![w] = Append(@, AggEv(wi[w], sc.qValues))]
  /\ UNCHANGED <<qts_list, mem, fn, nSamples, nGrid, outValue, workers, shared,
                 lo, hi, wi, wj, prev>>

\* Lines 69-76 and the loop increment: row i of the output.
median_Write ==
  /\ fn = "median"
  /\ pc = "loop"
  /\ \E w \in workers :
       /\ wi[w] < hi[w]
       /\ wpc[w] = "write"
       /\ LET i  == wi[w]
              sc == scratch[Slot(w)]
              q  == sc.avgQValue
          IN  /\ mem' = [mem EXCEPT ![outValue] = median_Put(@, i, q)]
              /\ scratch' = [scratch EXCEPT ![Slot(w)] =
                               [sc EXCEPT !.wValues = Handle(outValue, "w"),
                                          !.xValues = Handle(outValue, "x"),
                                          !.yValues = Handle(outValue, "y"),
                                          !.zValues = Handle(outValue, "z")]]
              /\ trace' = [trace EXCEPT ![w] =
                             @ \o <<WriteEv(outValue, "w", i, median_Put(mem[outValue], i, q).w[i + 1]),
                                    WriteEv(outValue, "x", i, median_Put(mem[outValue], i, q).x[i + 1]),
                                    WriteEv(outValue, "y", i, median_Put(mem[outValue], i, q).y[i + 1]),
                                    WriteEv(outValue, "z", i, median_Put(mem[outValue], i, q).z[i + 1])>>]
              /\ wi' = [wi EXCEPT ![w] = median_NextI(i)]
              /\ wj' = [wj EXCEPT ![w] = 0]
              /\ wpc' = [wpc EXCEPT ![w] = "gather"]
  /\ UNCHANGED <<qts_list, fn, pc, nSamples, nGrid, outValue, workers, shared,
                 lo, hi, prev>>

\* Lines 79-80: the class attribute, and the return.
median_Finish ==
  /\ fn = "median"
  /\ pc = "loop"
  /\ \A w \in workers : wi[w] >= hi[w]
  /\ mem' = [mem EXCEPT ![outValue] = median_Tag(@)]
  /\ trace' = [trace EXCEPT ![1] = Append(@, AttrEv(outValue))]
  /\ pc' = "done"
  /\ UNCHANGED <<qts_list, fn, nSamples, nGrid, outValue, workers, shared,
                 lo, hi, wi, wj, wpc, scratch, prev>>

median_qts_impl ==
  \/ median_Enter
  \/ median_Gather
  \/ median_Aggregate
  \/ median_Write
  \/ median_Finish

-----------------------------------------------------------------------------
(* The caller.                                                             *)

Perms(n) == {p \in [1..n -> 1..n] : \A a, b \in 1..n : a # b => p[a] # p[b]}

\* After a call has returned, the caller keeps what it returned and calls
\* either function once more, on the same series in any order.
Recall ==
  /\ pc = "done"
  /\ ~prev.set
  /\ prev' = [set |-> TRUE, fn |-> fn, list |-> qts_list, out |-> mem[outValue],
              trace |-> trace]
  /\ fn' \in Fns
  /\ \E p \in Perms(Len(qts_list)) : qts_list' = [k \in 1..Len(qts_list) |-> qts_list[p[k]]]
  /\ mem' = [mem EXCEPT ![0] = NoFrame]
  /\ pc' = "start"
  /\ nSamples' = 0
  /\ nGrid' = 0
  /\ outValue' = -1
  /\ lo' = [w \in workers |-> 0]
  /\ hi' = [w \in workers |-> 0]
  /\ wi' = [w \in workers |-> 0]
  /\ wj' = [w \in workers |-> 0]
  /\ wpc' = [w \in workers |-> "gather"]
  /\ scratch' = [w \in workers |-> FreshScratch(0)]
  /\ trace' = [w \in workers |-> <<>>]
  /\ UNCHANGED <<workers, shared>>

DriverNext ==
  \/ mean_qts_impl
  \/ median_qts_impl

Next ==
  \/ DriverNext
  \/ Recall

Spec == Init /\ [][Next]_vars

\* A call on a list of series whose grid sizes need not agree.
InitMis ==
  /\ \E n \in 1..MaxN :
       \E frames \in [1..n -> UNION {SeriesOf(g, TblClass) : g \in 0..MaxG}] :
         /\ mem = [k \in 0..n |-> IF k = 0 THEN NoFrame ELSE frames[k]]
         /\ qts_list = [k \in 1..n |-> k]
  /\ fn \in Fns
  /\ workers = {1}
  /\ shared = TRUE
  /\ prev = NoPrev
  /\ Idle

SpecMis == InitMis /\ [][DriverNext]_vars

\* The loop over the grid distributed over two threads, each with its own
\* range of grid indices, the scratch variables being either the function's
\* (lines 8 and 11-13, one copy) or private to each thread.
\* A thread's steps are lines 19-25, line 28 and lines 30-37, each taken at
\* once.  With private scratch the threads meet in mem only, where the
\* inputs are never written; with the function's scratch the coarse steps
\* show fewer races than the code has, not more.
InitPar ==
  /\ \E n \in 1..MaxN, g \in 0..MaxG :
       \E frames \in [1..n -> {Series(a, 0, TblClass, g) : a \in 0..(Len(Quats) - 1)}] :
         /\ mem = [k \in 0..n |-> IF k = 0 THEN NoFrame ELSE frames[k]]
         /\ qts_list = [k \in 1..n |-> k]
  /\ fn \in Fns
  /\ workers = {1, 2}
  /\ shared \in BOOLEAN
  /\ prev = NoPrev
  /\ Idle

SpecPar == InitPar /\ [][DriverNext]_vars

-----------------------------------------------------------------------------
(* Vocabulary of the properties.                                           *)

N == Len(qts_list)

\* The k-th series of the list (k = 1 is the first input).
In(k) == mem[qts_list[k]]

Out == mem[outValue]

\* The grid size the inputs share.
G == Nrows(In(1))

QuatOf(frame, i) == <<frame.w[i + 1], frame.x[i + 1], frame.y[i + 1], frame.z[i + 1]>>

\* The sample sequence of grid index i: one quaternion per input, in input order.
SamplesAt(i) == [k \in 1..N |-> QuatOf(In(k), i)]

Returned == pc = "done"

QuatCols == {"w", "x", "y", "z"}

Events(w, kind) == SelectSeq(trace[w], LAMBDA e : e.ev = kind)

\* Positions of thread w's trace that hold an event of the given kind for grid index i.
At(w, kind, i) == {k \in DOMAIN trace[w] : trace[w][k].ev = kind /\ trace[w][k].i = i}

-----------------------------------------------------------------------------
\* C1: when mean_qts_impl returns on N >= 1 series of grid size G, the output
\* quaternion at every grid index i < G is gmean of the N samples of index i,
\* and the sample sequence the aggregator was given at i is exactly
\* (input_0[i], ..., input_{N-1}[i]), in input order.
C1_MeanIsPointwiseGmean ==
  (Returned /\ fn = "mean" /\ N >= 1) =>
     /\ Nrows(Out) = G
     /\ \A i \in 0..(G - 1) :
          /\ QuatOf(Out, i) = gmean(SamplesAt(i))
          /\ \A k \in At(1, "agg", i) : trace[1][k].arg = SamplesAt(i)
          /\ At(1, "agg", i) # {}

C1_Witness ==
  /\ Returned /\ fn = "mean" /\ N = 2 /\ G = 2
  /\ Out.w[1].op = "gmean"
  /\ Out.w[2].op = "gmean"
  /\ SamplesAt(0) # SamplesAt(1)

\* What a result looks like with the aggregator's name abstracted away.
PlugScalar(v) == [v EXCEPT !.op = IF @ \in {"gmean", "gmedian"} THEN "agg" ELSE @]

PlugCol(col) == [k \in DOMAIN col |-> PlugScalar(col[k])]

PlugFrame(frame) ==
  [frame EXCEPT !.w = PlugCol(@), !.x = PlugCol(@), !.y = PlugCol(@), !.z = PlugCol(@)]

PlugTrace(tr) ==
  [w \in DOMAIN tr |-> [k \in DOMAIN tr[w] |-> [tr[w][k] EXCEPT !.val = PlugScalar(@)]]]

\* The two calls the caller made were of different functions on the same list.
SideBySide == Returned /\ prev.set /\ prev.fn # fn /\ prev.list = qts_list /\ N >= 1

\* C2: mean_qts_impl and median_qts_impl, called on the same list, make the
\* same sequence of reads, aggregator calls and writes and return equal
\* outputs (grid size, columns, tag), up to which aggregator is plugged in.
C2_SameProcedure ==
  SideBySide =>
     /\ PlugTrace(prev.trace) = PlugTrace(trace)
     /\ PlugFrame(prev.out) = PlugFrame(Out)
     /\ Nrows(prev.out) = Nrows(Out)
     /\ prev.out.class = Out.class

C2_Witness ==
  /\ SideBySide /\ N = 2 /\ G = 2
  /\ Out.x[2].op \in {"gmean", "gmedian"}
  /\ prev.out.x[2].op \in {"gmean", "gmedian"}
  /\ prev.out.x[2].op # Out.x[2].op

\* C3: no step of either function changes an input series: every column and
\* the class attribute of every object of the list stay as they were (the
\* caller's next call changes none either).
C3_InputsNotMutated ==
  [][\A k \in DOMAIN mem \ {0} : mem'[k] = mem[k]]_vars

\* A call has returned an output that differs from the first input in its
\* quaternion columns and in its tag, with that input still in place.
C3_Witness ==
  /\ Returned /\ N = 2 /\ G = 2
  /\ outValue = 0
  /\ Out.w # In(1).w
  /\ Out.class # In(1).class
  /\ Len(Events(1, "write")) = 8

\* C4: the output has the grid size of the inputs and the column layout of
\* the first input, its time column is that of the first input, and the
\* driver writes the four quaternion columns of the output only.
C4_ShapePreserved ==
  /\ (Returned /\ N >= 1) =>
        /\ Nrows(Out) = G
        /\ DOMAIN Out = DOMAIN In(1)
        /\ \A c \in QuatCols : Len(Out[c]) = G
        /\ Out.time = In(1).time
  /\ N >= 1 =>
        \A w \in workers : \A k \in DOMAIN trace[w] :
          trace[w][k].ev = "write" =>
             /\ trace[w][k].col \in QuatCols
             /\ trace[w][k].frame = outValue
             /\ outValue \notin Range(qts_list)

C4_Witness ==
  /\ Returned /\ N = 2 /\ G = 2
  /\ In(1).time # In(2).time
  /\ Out.time = In(1).time
  /\ Out.w # In(1).w

\* The caller made two calls of the same function on the same series, the
\* second on a reordered list.
Permuted == Returned /\ prev.set /\ prev.fn = fn /\ N >= 1

\* C5 as stated: the returned series as a whole is the same for every order
\* of the input list.
C5_WholeSeriesOrderIndependent ==
  Permuted => prev.out = Out

\* C5 as amended: for every order of the list the quaternion columns, the
\* grid size and the tag of the returned series are the same; its time
\* column is the one of the series that comes first in the list.
C5_QuaternionsOrderIndependent ==
  Permuted =>
     /\ \A c \in QuatCols : prev.out[c] = Out[c]
     /\ Nrows(prev.out) = Nrows(Out)
     /\ prev.out.class = Out.class
     /\ Out.time = In(1).time
     /\ prev.out.time = mem[prev.list[1]].time

C5_Witness ==
  /\ Permuted /\ N = 2 /\ G = 2
  /\ prev.list # qts_list
  /\ In(1).w # In(2).w
  /\ In(1).time # In(2).time
  /\ Out.w[1].op \in {"gmean", "gmedian"}

\* C6: either function, called on a list of exactly one series, returns a
\* series of the same grid size, with the same time column and, at every
\* grid index, the same quaternion as that series.
C6_SingleSampleIdentity ==
  (Returned /\ N = 1) =>
     /\ Nrows(Out) = Nrows(In(1))
     /\ Out.time = In(1).time
     /\ \A i \in 0..(Nrows(In(1)) - 1) : QuatOf(Out, i) = QuatOf(In(1), i)

C6_Witness ==
  /\ Returned /\ N = 1 /\ G = 2
  /\ QuatOf(In(1), 0) # QuatOf(In(1), 1)
  /\ Len(Events(1, "agg")) = 2

\* C7: on an empty list either function ends in an error before any element
\* of the list is accessed, before the aggregator is called and before any
\* output is produced.
C7_EmptyListFailsFast ==
  (N = 0 /\ pc # "start") =>
     /\ pc = "error"
     /\ trace[1] = <<>>
     /\ outValue = -1

\* C10: a call on N >= 1 series of grid size G is one pass: the aggregator is
\* called exactly G times, for the grid indices 0, 1, ..., G-1 in this order;
\* every output cell is written exactly once, after the N samples of its
\* index were read and aggregated; then the function returns, and until then
\* it can always take a step.  For G = 0 nothing is aggregated and the
\* output is the first input with the tag set.
C10_SinglePass ==
  N >= 1 =>
     /\ pc \in {"start", "loop", "done"}
     /\ pc \in {"start", "loop"} => ENABLED DriverNext
     /\ Len(trace[1]) <= 2 + G * (5 * N + 5)
     /\ Returned =>
          /\ Len(Events(1, "agg")) = G
          /\ \A k \in 1..G : Events(1, "agg")[k].i = k - 1
          /\ \A i \in 0..(G - 1) : \A c \in QuatCols :
               /\ Cardinality({k \in At(1, "write", i) : trace[1][k].col = c}) = 1
               /\ Cardinality(At(1, "read", i)) = 4 * N
               /\ \A k \in At(1, "write", i) :
                    /\ \A r \in At(1, "read", i) : r < k
                    /\ \A a \in At(1, "agg", i) : a < k
          /\ Len(Events(1, "write")) = 4 * G
          /\ trace[1][Len(trace[1])].ev = "attr"
          /\ G = 0 => (Events(1, "agg") = <<>> /\ Out = [In(1) EXCEPT !.class = QtsClass])

C10_Witness ==
  /\ Returned /\ N = 2 /\ G = 2
  /\ Len(Events(1, "agg")) = 2
  /\ Events(1, "agg")[1].i = 0
  /\ Events(1, "agg")[2].i = 1

-----------------------------------------------------------------------------
\* Some thread read past the end of a column (or of the list).
OobRead == \E w \in workers : Events(w, "oob") # <<>>

SomeInputShort == \E k \in 1..N : Nrows(In(k)) < Nrows(In(1))

\* C9: the grid size is that of the first input, and nothing is checked
\* before the loop: an error arises from a read past the end only.  Such a
\* read happens only if some input has fewer grid points than the first, and
\* in that case the function cannot return without one.  When no input is
\* shorter than the first the call returns an output of the first input's
\* grid size, computed from rows 0..G-1 only.
C9_NoGridSizeCheck ==
  /\ pc # "start" => nGrid = G
  /\ pc \in {"error", "crash"} => OobRead
  /\ OobRead => SomeInputShort
  /\ (Returned /\ SomeInputShort) => OobRead
  /\ ~SomeInputShort =>
        /\ pc \in {"start", "loop", "done"}
        /\ pc \in {"start", "loop"} => ENABLED DriverNext
        /\ Returned =>
             /\ Nrows(Out) = G
             /\ \A i \in 0..(G - 1) :
                  QuatOf(Out, i) = IF fn = "mean" THEN gmean(SamplesAt(i))
                                   ELSE gmedian(SamplesAt(i))
             /\ \A k \in DOMAIN trace[1] :
                  trace[1][k].ev = "read" => trace[1][k].i < G
             /\ \A j \in 1..N : \A i \in 0..(G - 1) :
                  Cardinality({k \in At(1, "read", i) : trace[1][k].pos = j - 1}) = 4

\* The second of two inputs is shorter than the first, and the read of its
\* missing row happened, in the second pass of the outer loop.
C9_Witness ==
  /\ N = 2 /\ Nrows(In(2)) = 1 /\ G = 2
  /\ OobRead
  /\ Events(1, "oob")[1].pos = 1
  /\ Events(1, "oob")[1].i = 1
  /\ Len(Events(1, "agg")) = 1

\* The first of two inputs is shorter than the second: the call returned
\* without looking at the second's last row.
C9_LongInputIgnored ==
  /\ N = 2 /\ Nrows(In(2)) = 2 /\ G = 1
  /\ Returned
  /\ Nrows(Out) = 1
  /\ Out.w[1].op \in {"gmean", "gmedian"}

-----------------------------------------------------------------------------
\* The cells of mem thread w wrote, and the ones it read.
Written(w) ==
  {<<trace[w][k].frame, trace[w][k].col, trace[w][k].i>> :
     k \in {k \in DOMAIN trace[w] : trace[w][k].ev = "write"}}

ReadFrom(w) ==
  {<<trace[w][k].frame, trace[w][k].col, trace[w][k].i>> :
     k \in {k \in DOMAIN trace[w] : trace[w][k].ev = "read"}}

NoConflict ==
  \A w1, w2 \in workers :
    w1 # w2 => /\ Written(w1) \cap Written(w2) = {}
               /\ ReadFrom(w1) \cap Written(w2) = {}

\* What the sequential pass returns on the list.
Sequential ==
  [time  |-> In(1).time,
   w     |-> [k \in 1..G |-> (IF fn = "mean" THEN gmean(SamplesAt(k - 1)) ELSE gmedian(SamplesAt(k - 1)))[1]],
   x     |-> [k \in 1..G |-> (IF fn = "mean" THEN gmean(SamplesAt(k - 1)) ELSE gmedian(SamplesAt(k - 1)))[2]],
   y     |-> [k \in 1..G |-> (IF fn = "mean" THEN gmean(SamplesAt(k - 1)) ELSE gmedian(SamplesAt(k - 1)))[3]],
   z     |-> [k \in 1..G |-> (IF fn = "mean" THEN gmean(SamplesAt(k - 1)) ELSE gmedian(SamplesAt(k - 1)))[4]],
   class |-> QtsClass]

\* The one-thread run returns Sequential (the reference of C8).
SequentialIsReference == (Returned /\ N >= 1) => Out = Sequential

\* C8 as stated: the loop body has no mutable resource apart from the
\* output, so threads with disjoint ranges of grid indices never touch the
\* same cell and the output is that of the sequential pass.
C8_ParallelEqualsSequential ==
  /\ NoConflict
  /\ Returned => Out = Sequential

\* C8 as amended: the loop body writes row i of the output only and reads
\* the inputs only, but works in the function's scratch variables; threads
\* with disjoint ranges of grid indices that each have scratch variables of
\* their own never touch the same cell, and the output is that of the
\* sequential pass.
C8_ParallelWithPrivateScratch ==
  ~shared =>
     /\ NoConflict
     /\ \A w \in workers : \A c \in Written(w) :
          c[1] = outValue /\ c[3] >= lo[w] /\ c[3] < hi[w]
     /\ \A w \in workers : \A c \in ReadFrom(w) : c[1] \in Range(qts_list)
     /\ Returned => Out = Sequential

\* Both threads had rows to write, interleaved their steps, and the call returned.
C8_Witness ==
  /\ ~shared /\ Returned /\ N = 2 /\ G = 2
  /\ hi[1] = 1
  /\ Written(1) # {} /\ Written(2) # {}
  /\ Out.w[1].op \in {"gmean", "gmedian"}
  /\ scratch[1].qValues # scratch[2].qValues

====
